---- MODULE Spec2Model ----
(***************************************************************************)
(* Russian-roulette chat bot: the per-chat game state machine driven by    *)
(* the telebot command handlers /create /join /start /skip /pass /pull     *)
(* /stop /status.  Every handler but /start runs wholly under the global   *)
(* mutex and is one atomic action; /start releases the mutex after its     *)
(* lookup and is two steps.  A handler is a function On<Command> from the  *)
(* session map and the message to the map it leaves and the text it        *)
(* sends; the action of the handler applies that function.                 *)
(***************************************************************************)
EXTENDS Integers, Sequences, FiniteSets, TLC

\* ------------------------------------------------------------------------
\* Bounds of the exploration
\* ------------------------------------------------------------------------
NumUsers == 3
\* handlers that may run between the two halves of one /start callback
MaxInterleaved == 1

\* Program constants
Chambers == 6
InitialSkips == 2
MinPlayers == 2

\* ------------------------------------------------------------------------
\* The telegram users that send commands (telebot.User: Username,
\* FirstName, ID).  The three kinds of identity the bot distinguishes are
\* present: a user with a username, one with a first name only, one with
\* neither; the fourth shares the display handle of the second.
\* ------------------------------------------------------------------------
UserTable ==
  << [Username |-> "alice", FirstName |-> "Alice", ID |-> 1],
     [Username |-> "",      FirstName |-> "bob",   ID |-> 2],
     [Username |-> "",      FirstName |-> "",      ID |-> 3],
     [Username |-> "bob",   FirstName |-> "Rob",   ID |-> 4],
     [Username |-> "",      FirstName |-> "",      ID |-> 5] >>

Users == { UserTable[i] : i \in 1..NumUsers }

\* The chat rooms (m.Chat.ID) that commands arrive from.
Chats == {1}

\* getPlayerID: username, else first name, else "player<ID>"
getPlayerID(sender) ==
  IF sender.Username # "" THEN sender.Username
  ELSE IF sender.FirstName # "" THEN sender.FirstName
  ELSE "player" \o ToString(sender.ID)

\* ------------------------------------------------------------------------
\* State
\* ------------------------------------------------------------------------
VARIABLES
  games,     \* map[int64]*Game: a function whose DOMAIN is the set of keys
  starting,  \* the /start callback that has released the mutex, if any
  begun      \* chats whose stored game /start has announced as starting

vars == <<games, starting, begun>>

\* Go map operations
EmptyMap == [c \in {} |-> 0]
MapPut(m, k, v) == [x \in (DOMAIN m) \cup {k} |-> IF x = k THEN v ELSE m[x]]
\* variation: a delete that clears the whole map
MapDelete_All(m, k) == EmptyMap

\* variation: the delete left out
MapDelete_Forgotten(m, k) == m

\* delete(games, k)
MapDelete(m, k) == [x \in (DOMAIN m) \ {k} |-> m[x]]

\* game.Skips[p]: a Go map read yields 0 for a missing key
SkipsOf(g, p) == IF p \in DOMAIN g.Skips THEN g.Skips[p] ELSE 0

\* variation: the bullet drawn from 1..6
NewGame_BulletFromOne(playerID, bullet) ==
  [ Players         |-> <<playerID>>,
    Bullet          |-> bullet + 1,
    CurrentPos      |-> 0,
    PullCount       |-> 0,
    IsActive        |-> TRUE,
    Skips           |-> [p \in {playerID} |-> InitialSkips],
    HasPulledOnTurn |-> FALSE ]

\* &Game{...} of /create; bullet is the value of rand.Intn(6)
NewGame(playerID, bullet) ==
  [ Players         |-> <<playerID>>,
    Bullet          |-> bullet,
    CurrentPos      |-> 0,
    PullCount       |-> 0,
    IsActive        |-> TRUE,
    Skips           |-> [p \in {playerID} |-> InitialSkips],
    HasPulledOnTurn |-> FALSE ]

\* game, exists := games[id];  exists && game.IsActive
Live(m, c) == c \in DOMAIN m /\ m[c].IsActive

\* variation: the turn taken from the pull counter instead of CurrentPos
currentPlayer_ByPulls(g) == g.Players[(g.PullCount % Len(g.Players)) + 1]

\* game.Players[game.CurrentPos%len(game.Players)]  (sequences are 1-based)
currentPlayer(g) == g.Players[(g.CurrentPos % Len(g.Players)) + 1]

\* if getPlayerID(m.Sender) != currentPlayer
NotYourTurn(g, sender) == getPlayerID(sender) # currentPlayer(g)

\* for _, player := range game.Players { if player == playerID ... }
InRoster(g, playerID) == \E i \in 1..Len(g.Players) : g.Players[i] = playerID

\* ------------------------------------------------------------------------
\* What a handler passes to bot.Send: the kind of text and the values
\* formatted into it
\* ------------------------------------------------------------------------
Reply(kind, player, next, chambers, odds, skips, roster, table) ==
  [ kind |-> kind, player |-> player, next |-> next, chambers |-> chambers,
    odds |-> odds, skips |-> skips, roster |-> roster, table |-> table ]
Text(kind) == Reply(kind, "", "", 0, 0, 0, <<>>, <<>>)
Named(kind, player) == Reply(kind, player, "", 0, 0, 0, <<>>, <<>>)

\* The outcome of one handler run: the session map it leaves and what it sent
Result(m, s) == [games |-> m, sent |-> s]

\* (1.0 / float64(remainingChambers)) * 100 printed with %.1f, in tenths
oddsPercentage(remainingChambers) == ((10000 \div remainingChambers) + 5) \div 10

\* ------------------------------------------------------------------------
\* The handlers, as functions of the session map and the message
\* (c = m.Chat.ID, u = m.Sender)
\* ------------------------------------------------------------------------
\* variation: /create without the already-in-progress guard
CreateBlocked_Never(m, c) == FALSE

\* if game, exists := games[m.Chat.ID]; exists && game.IsActive
CreateBlocked(m, c) == Live(m, c)

\* variation: /create starting from an empty session map
OnCreate_FreshMap(m, c, u, bullet) ==
  IF CreateBlocked(m, c)
  THEN Result(m, Text("AlreadyActive"))
  ELSE Result(MapPut(EmptyMap, c, NewGame(getPlayerID(u), bullet)),
              Named("Created", getPlayerID(u)))

OnCreate(m, c, u, bullet) ==
  IF CreateBlocked(m, c)
  THEN Result(m, Text("AlreadyActive"))
  ELSE Result(MapPut(m, c, NewGame(getPlayerID(u), bullet)),
              Named("Created", u.Username))

\* variation: /join without the already-in-the-game scan
JoinBlocked_Never(g, playerID) == FALSE

JoinBlocked(g, playerID) == InRoster(g, playerID)

OnJoin(m, c, u) ==
  IF ~Live(m, c)
  THEN Result(m, Text("NoActiveGame"))
  ELSE LET g == m[c]
           playerID == getPlayerID(u)
       IN IF JoinBlocked(g, playerID)
          THEN Result(m, Text("AlreadyInGame"))
          ELSE LET g2 == [g EXCEPT
                            !.Players = Append(g.Players, playerID),
                            !.Skips = MapPut(g.Skips, playerID, InitialSkips)]
               IN Result([m EXCEPT ![c] = g2],
                         Reply("Joined", u.Username, "", 0, 0, 0, g2.Players, <<>>))

SkipTurnBlocked(g) == g.HasPulledOnTurn

\* variation: the budget test off by one
SkipBudgetBlocked_OffByOne(g, p) == SkipsOf(g, p) < 0

\* if game.Skips[currentPlayer] <= 0
SkipBudgetBlocked(g, p) == SkipsOf(g, p) <= 0

\* variation: the skip charged before the pulled-this-turn test
OnSkip_ChargeFirst(m, c, u) ==
  IF ~Live(m, c)
  THEN Result(m, Text("NoActiveGame"))
  ELSE LET g == m[c]
           cur == currentPlayer(g)
           g1 == [g EXCEPT !.Skips = MapPut(g.Skips, cur, SkipsOf(g, cur) - 1)]
       IN IF NotYourTurn(g, u)
          THEN Result(m, Named("NotYourTurn", cur))
          ELSE IF SkipBudgetBlocked(g, cur)
          THEN Result(m, Text("NoSkipsLeft"))
          ELSE IF SkipTurnBlocked(g)
          THEN Result([m EXCEPT ![c] = g1], Text("AlreadyPulled"))
          ELSE LET g2 == [g1 EXCEPT !.CurrentPos = g.CurrentPos + 1,
                                    !.HasPulledOnTurn = FALSE]
               IN Result([m EXCEPT ![c] = g2],
                         Reply("Skipped", cur, currentPlayer(g2), 0, 0,
                               SkipsOf(g2, cur), <<>>, <<>>))

OnSkip(m, c, u) ==
  IF ~Live(m, c)
  THEN Result(m, Text("NoActiveGame"))
  ELSE LET g == m[c]
           cur == currentPlayer(g)
       IN IF NotYourTurn(g, u)
          THEN Result(m, Named("NotYourTurn", cur))
          ELSE IF SkipTurnBlocked(g)
          THEN Result(m, Text("AlreadyPulled"))
          ELSE IF SkipBudgetBlocked(g, cur)
          THEN Result(m, Text("NoSkipsLeft"))
          ELSE LET g2 == [g EXCEPT
                            !.Skips = MapPut(g.Skips, cur, SkipsOf(g, cur) - 1),
                            !.CurrentPos = g.CurrentPos + 1,
                            !.HasPulledOnTurn = FALSE]
               IN Result([m EXCEPT ![c] = g2],
                         Reply("Skipped", cur, currentPlayer(g2), 0, 0,
                               SkipsOf(g2, cur), <<>>, <<>>))

\* variation: /pass without the pulled-this-turn guard
PassBlocked_Never(g) == FALSE

\* if !game.HasPulledOnTurn
PassBlocked(g) == ~g.HasPulledOnTurn

OnPass(m, c, u) ==
  IF ~Live(m, c)
  THEN Result(m, Text("NoActiveGame"))
  ELSE LET g == m[c]
           cur == currentPlayer(g)
       IN IF NotYourTurn(g, u)
          THEN Result(m, Named("NotYourTurn", cur))
          ELSE IF PassBlocked(g)
          THEN Result(m, Text("MustPullFirst"))
          ELSE LET g2 == [g EXCEPT !.CurrentPos = g.CurrentPos + 1,
                                   !.HasPulledOnTurn = FALSE]
               IN Result([m EXCEPT ![c] = g2],
                         Reply("Passed", cur, currentPlayer(g2), 0, 0, 0,
                               <<>>, <<>>))

\* variation: the chamber taken from the turn position
BulletFires_ByTurn(g) == g.CurrentPos = g.Bullet

\* if game.PullCount == game.Bullet
BulletFires(g) == g.PullCount = g.Bullet

\* variation: a surviving pull that is not counted
Survive_Uncounted(g) == [g EXCEPT !.HasPulledOnTurn = TRUE]

\* variation: a surviving pull that also moves the turn on
Survive_Advancing(g) ==
  [g EXCEPT !.HasPulledOnTurn = TRUE, !.PullCount = g.PullCount + 1,
            !.CurrentPos = g.CurrentPos + 1]

\* variation: a surviving pull counted twice
Survive_CountedTwice(g) ==
  [g EXCEPT !.HasPulledOnTurn = TRUE, !.PullCount = g.PullCount + 2]

\* game.HasPulledOnTurn = true; game.PullCount++
Survive(g) == [g EXCEPT !.HasPulledOnTurn = TRUE, !.PullCount = g.PullCount + 1]

\* Both fatal branches send the same text; the kind tells them apart.
OnPull(m, c, u) ==
  IF ~Live(m, c)
  THEN Result(m, Text("NoActiveGame"))
  ELSE LET g == m[c]
           cur == currentPlayer(g)
           remainingChambers == Chambers - g.PullCount - 1
       IN IF NotYourTurn(g, u)
          THEN Result(m, Named("NotYourTurn", cur))
          ELSE IF BulletFires(g)
          THEN Result(MapDelete(m, c), Named("Bang", u.Username))
          ELSE IF remainingChambers <= 0
          THEN Result(MapDelete(m, c), Named("BangLastChamber", u.Username))
          ELSE Result([m EXCEPT ![c] = Survive(g)],
                      Reply("Click", getPlayerID(u), "", remainingChambers,
                            oddsPercentage(remainingChambers),
                            SkipsOf(g, cur), <<>>, <<>>))

\* variation: /stop honoured for players of the game only
OnStop_PlayersOnly(m, c, u) ==
  IF Live(m, c) /\ InRoster(m[c], getPlayerID(u))
  THEN Result(MapDelete(m, c), Text("Stopped"))
  ELSE Result(m, Text("NoGameToStop"))

OnStop(m, c, u) ==
  IF Live(m, c)
  THEN Result(MapDelete(m, c), Text("Stopped"))
  ELSE Result(m, Text("NoGameToStop"))

OnStatus(m, c, u) ==
  IF ~Live(m, c)
  THEN Result(m, Text("NoActiveGameStatus"))
  ELSE LET g == m[c]
       IN Result(m, Reply("Status", currentPlayer(g), "", 0, 0, 0, g.Players,
                          [i \in 1..Len(g.Players) |-> SkipsOf(g, g.Players[i])]))

\* ------------------------------------------------------------------------
\* /start holds the mutex for its lookup only
\* ------------------------------------------------------------------------
NoStart == [chat |-> 0, exists |-> FALSE, ptr |-> "none", obj |-> <<>>, gap |-> 0]

\* mutex.Lock(); game, exists := games[m.Chat.ID]; mutex.Unlock()
StartLookupOf(m, c) ==
  [ chat |-> c,
    exists |-> c \in DOMAIN m,
    ptr |-> IF c \in DOMAIN m THEN "map" ELSE "none",
    obj |-> <<>>,
    gap |-> 0 ]

\* the object the callback's pointer refers to
StartObject(st, m) == IF st.ptr = "map" THEN m[st.chat] ELSE st.obj

\* variation: /start without the roster-size test
OnStartCheck_NoMinimum(st, m) ==
  IF ~st.exists \/ ~StartObject(st, m).IsActive
  THEN Text("NoActiveGame")
  ELSE Named("Starting", StartObject(st, m).Players[1])

\* the checks and announcements of /start after the unlock
OnStartCheck(st, m) ==
  IF ~st.exists \/ ~StartObject(st, m).IsActive
  THEN Text("NoActiveGame")
  ELSE IF Len(StartObject(st, m).Players) < MinPlayers
  THEN Text("NeedPlayers")
  ELSE Named("Starting", StartObject(st, m).Players[1])

\* A handler takes the mutex while a /start callback sits between its
\* unlock and its checks
Schedulable == starting = NoStart \/ starting.gap < MaxInterleaved
Tick(s) == IF s = NoStart THEN s ELSE [s EXCEPT !.gap = s.gap + 1]

\* delete(games, c): a /start callback that holds the pointer keeps the
\* object; nothing else can reach it any more, so it is frozen as it is now.
\* /start reads only IsActive and Players of it.
Detach(c) ==
  IF starting.chat = c /\ starting.ptr = "map"
  THEN [starting EXCEPT !.ptr = "detached",
                        !.obj = [IsActive |-> games[c].IsActive,
                                 Players  |-> games[c].Players],
                        !.gap = starting.gap + 1]
  ELSE Tick(starting)

\* What a handler that deletes or keeps games[c] leaves of the waiting
\* /start callback
Waiting(c, m2) ==
  IF c \in DOMAIN games /\ c \notin DOMAIN m2 THEN Detach(c) ELSE Tick(starting)

Init ==
  /\ games = EmptyMap
  /\ starting = NoStart
  /\ begun = {}

\* The handlers that hold the mutex from entry to return
Create(c, u) ==
  /\ Schedulable
  /\ \E bullet \in 0..(Chambers - 1) :
     LET r == OnCreate(games, c, u, bullet)
     IN /\ games' = r.games
        /\ starting' = Waiting(c, r.games)
        /\ begun' = begun \cap DOMAIN r.games

Join(c, u) ==
  /\ Schedulable
  /\ LET r == OnJoin(games, c, u)
     IN /\ games' = r.games
        /\ starting' = Waiting(c, r.games)
        /\ begun' = begun \cap DOMAIN r.games

Skip(c, u) ==
  /\ Schedulable
  /\ LET r == OnSkip(games, c, u)
     IN /\ games' = r.games
        /\ starting' = Waiting(c, r.games)
        /\ begun' = begun \cap DOMAIN r.games

Pass(c, u) ==
  /\ Schedulable
  /\ LET r == OnPass(games, c, u)
     IN /\ games' = r.games
        /\ starting' = Waiting(c, r.games)
        /\ begun' = begun \cap DOMAIN r.games

Pull(c, u) ==
  /\ Schedulable
  /\ LET r == OnPull(games, c, u)
     IN /\ games' = r.games
        /\ starting' = Waiting(c, r.games)
        /\ begun' = begun \cap DOMAIN r.games

Stop(c, u) ==
  /\ Schedulable
  /\ LET r == OnStop(games, c, u)
     IN /\ games' = r.games
        /\ starting' = Waiting(c, r.games)
        /\ begun' = begun \cap DOMAIN r.games

Status(c, u) ==
  /\ Schedulable
  /\ LET r == OnStatus(games, c, u)
     IN /\ games' = r.games
        /\ starting' = Waiting(c, r.games)
        /\ begun' = begun \cap DOMAIN r.games

\* /start
StartLookup(c) ==
  /\ starting = NoStart
  /\ starting' = StartLookupOf(games, c)
  /\ UNCHANGED <<games, begun>>

StartCheck ==
  /\ starting # NoStart
  /\ starting' = NoStart
  /\ UNCHANGED games
  /\ begun' = IF OnStartCheck(starting, games).kind = "Starting" /\ starting.ptr = "map"
              THEN begun \cup {starting.chat}
              ELSE begun

Next ==
  \/ \E c \in Chats, u \in Users : Create(c, u)
  \/ \E c \in Chats, u \in Users : Join(c, u)
  \/ \E c \in Chats : StartLookup(c)
  \/ StartCheck
  \/ \E c \in Chats, u \in Users : Skip(c, u)
  \/ \E c \in Chats, u \in Users : Pass(c, u)
  \/ \E c \in Chats, u \in Users : Pull(c, u)
  \/ \E c \in Chats, u \in Users : Stop(c, u)
  \/ \E c \in Chats, u \in Users : Status(c, u)

Spec == Init /\ [][Next]_vars

\* ------------------------------------------------------------------------
\* Two chats served by the one session map. /start writes nothing to the
\* map or to a game (part_000:110-127) and is left to Spec.
MaxNearBullet == 1
TwoChats == {1, 2}
TwoUsers == {UserTable[1], UserTable[2]}

\* /create whose rand.Intn(6) falls on one of the first chambers
CreateNear(c, u) ==
  /\ Schedulable
  /\ \E bullet \in 0..MaxNearBullet :
     LET r == OnCreate(games, c, u, bullet)
     IN /\ games' = r.games
        /\ starting' = Waiting(c, r.games)
        /\ begun' = begun \cap DOMAIN r.games

NextTwoChats ==
  \/ \E c \in TwoChats, u \in TwoUsers : CreateNear(c, u)
  \/ \E c \in TwoChats, u \in TwoUsers : Join(c, u)
  \/ \E c \in TwoChats, u \in TwoUsers : Skip(c, u)
  \/ \E c \in TwoChats, u \in TwoUsers : Pass(c, u)
  \/ \E c \in TwoChats, u \in TwoUsers : Pull(c, u)
  \/ \E c \in TwoChats, u \in TwoUsers : Stop(c, u)
  \/ \E c \in TwoChats, u \in TwoUsers : Status(c, u)

SpecTwoChats == Init /\ [][NextTwoChats]_vars

\* ------------------------------------------------------------------------
\* The first version of the bot (src/main.go): /startroulette, /join,
\* /startgame, /pull, /stopgame, /status. A game has Players, Bullet,
\* CurrentPos and IsActive; a game that ends is replaced in the map by a nil
\* pointer, and its key stays.
\* ------------------------------------------------------------------------
\* the nil *Game
Nil == [nil |-> TRUE]

\* games[m.Chat.ID] = nil
MapSetNil(m, c) == [m EXCEPT ![c] = Nil]

\* game, exists := games[id] finds the key with a nil pointer: the read of
\* game.IsActive that follows is a nil dereference, a run-time panic
NilEntry(m, c) == c \in DOMAIN m /\ m[c] = Nil

\* exists && game.IsActive, for a pointer that is not nil
LiveMain(m, c) == c \in DOMAIN m /\ m[c].IsActive

\* &Game{Players: []string{playerID}, Bullet: rand.Intn(6), CurrentPos: 0,
\*       IsActive: true}
NewGameMain(playerID, bullet) ==
  [Players |-> <<playerID>>, Bullet |-> bullet, CurrentPos |-> 0, IsActive |-> TRUE]

\* The handler stops at the panic: it has sent nothing and written nothing,
\* and its deferred mutex.Unlock() runs. Whether the process survives it is
\* the library's business; a process that dies takes no further step.
Panicked(m) == Result(m, Text("Panic"))

OnStartrouletteMain(m, c, u, bullet) ==
  IF NilEntry(m, c)
  THEN Panicked(m)
  ELSE IF LiveMain(m, c)
  THEN Result(m, Text("AlreadyActive"))
  ELSE Result(MapPut(m, c, NewGameMain(getPlayerID(u), bullet)),
              Named("Created", u.Username))

OnJoinMain(m, c, u) ==
  IF NilEntry(m, c)
  THEN Panicked(m)
  ELSE IF ~LiveMain(m, c)
  THEN Result(m, Text("NoActiveGame"))
  ELSE LET g == m[c]
           playerID == getPlayerID(u)
       IN IF InRoster(g, playerID)
          THEN Result(m, Text("AlreadyInGame"))
          ELSE LET g2 == [g EXCEPT !.Players = Append(g.Players, playerID)]
               IN Result([m EXCEPT ![c] = g2],
                         Reply("Joined", u.Username, "", 0, 0, 0, g2.Players, <<>>))

\* if m.Sender.Username != currentPlayer
NotYourTurnMain(g, sender) == sender.Username # currentPlayer(g)

\* if game.CurrentPos == game.Bullet
BulletFiresMain(g) == g.CurrentPos = g.Bullet

OnPullMain(m, c, u) ==
  IF NilEntry(m, c)
  THEN Panicked(m)
  ELSE IF ~LiveMain(m, c)
  THEN Result(m, Text("NoActiveGame"))
  ELSE LET g == m[c]
           remainingChambers == Chambers - (g.CurrentPos + 1)
           g2 == [g EXCEPT !.CurrentPos = g.CurrentPos + 1]
       IN IF NotYourTurnMain(g, u)
          THEN Result(m, Named("NotYourTurn", currentPlayer(g)))
          ELSE IF BulletFiresMain(g)
          THEN Result(MapSetNil(m, c), Named("Bang", u.Username))
          ELSE Result([m EXCEPT ![c] = g2],
                      Reply("Click", getPlayerID(u), currentPlayer(g2),
                            remainingChambers, oddsPercentage(remainingChambers),
                            0, <<>>, <<>>))

OnStopgameMain(m, c, u) ==
  IF NilEntry(m, c)
  THEN Panicked(m)
  ELSE IF LiveMain(m, c)
  THEN Result(MapSetNil(m, c), Text("Stopped"))
  ELSE Result(m, Text("NoGameToStop"))

OnStatusMain(m, c, u) ==
  IF NilEntry(m, c)
  THEN Panicked(m)
  ELSE IF ~LiveMain(m, c)
  THEN Result(m, Text("NoActiveGameStatus"))
  ELSE Result(m, Reply("Status", currentPlayer(m[c]), "", 0, 0, 0,
                       m[c].Players, <<>>))

\* /startgame: mutex.Lock(); game, exists := games[m.Chat.ID]; mutex.Unlock()
StartgameLookupOf(m, c) ==
  [ chat |-> c,
    exists |-> c \in DOMAIN m,
    ptr |-> IF c \notin DOMAIN m THEN "none"
            ELSE IF m[c] = Nil THEN "nil" ELSE "map",
    obj |-> <<>>,
    gap |-> 0 ]

\* the checks and announcements of /startgame after the unlock
OnStartgameCheckMain(st, m) ==
  IF ~st.exists
  THEN Text("NoActiveGame")
  ELSE IF st.ptr = "nil"
  THEN Text("Panic")
  ELSE IF ~StartObject(st, m).IsActive
  THEN Text("NoActiveGame")
  ELSE IF Len(StartObject(st, m).Players) < MinPlayers
  THEN Text("NeedPlayers")
  ELSE Named("Starting", StartObject(st, m).Players[1])

\* the chats whose key holds a game
Held(m) == { c \in DOMAIN m : m[c] # Nil }

\* games[c] = nil: a /startgame callback that holds the pointer keeps the
\* object
WaitingMain(c, m2) ==
  IF c \in Held(games) /\ c \notin Held(m2) THEN Detach(c) ELSE Tick(starting)

Startroulette(c, u) ==
  /\ Schedulable
  /\ \E bullet \in 0..(Chambers - 1) :
     LET r == OnStartrouletteMain(games, c, u, bullet)
     IN /\ games' = r.games
        /\ starting' = WaitingMain(c, r.games)
        /\ begun' = begun \cap Held(r.games)

JoinMain(c, u) ==
  /\ Schedulable
  /\ LET r == OnJoinMain(games, c, u)
     IN /\ games' = r.games
        /\ starting' = WaitingMain(c, r.games)
        /\ begun' = begun \cap Held(r.games)

PullMain(c, u) ==
  /\ Schedulable
  /\ LET r == OnPullMain(games, c, u)
     IN /\ games' = r.games
        /\ starting' = WaitingMain(c, r.games)
        /\ begun' = begun \cap Held(r.games)

Stopgame(c, u) ==
  /\ Schedulable
  /\ LET r == OnStopgameMain(games, c, u)
     IN /\ games' = r.games
        /\ starting' = WaitingMain(c, r.games)
        /\ begun' = begun \cap Held(r.games)

StatusMain(c, u) ==
  /\ Schedulable
  /\ LET r == OnStatusMain(games, c, u)
     IN /\ games' = r.games
        /\ starting' = WaitingMain(c, r.games)
        /\ begun' = begun \cap Held(r.games)

StartgameLookup(c) ==
  /\ starting = NoStart
  /\ starting' = StartgameLookupOf(games, c)
  /\ UNCHANGED <<games, begun>>

StartgameCheck ==
  /\ starting # NoStart
  /\ starting' = NoStart
  /\ UNCHANGED games
  /\ begun' = IF OnStartgameCheckMain(starting, games).kind = "Starting"
                 /\ starting.ptr = "map"
              THEN begun \cup {starting.chat}
              ELSE begun

NextMain ==
  \/ \E c \in Chats, u \in Users : Startroulette(c, u)
  \/ \E c \in Chats, u \in Users : JoinMain(c, u)
  \/ \E c \in Chats : StartgameLookup(c)
  \/ StartgameCheck
  \/ \E c \in Chats, u \in Users : PullMain(c, u)
  \/ \E c \in Chats, u \in Users : Stopgame(c, u)
  \/ \E c \in Chats, u \in Users : StatusMain(c, u)

SpecMain == Init /\ [][NextMain]_vars

\* ------------------------------------------------------------------------
\* The players keep playing: the player on turn of a stored game eventually
\* sends /pull. The handlers that write are those of Spec; /start writes
\* nothing and is left to Spec.
\* ------------------------------------------------------------------------
\* /pull sent by the player on turn
ActingPull(c) ==
  /\ c \in DOMAIN games
  /\ \E u \in Users :
       /\ getPlayerID(u) = currentPlayer(games[c])
       /\ Pull(c, u)

NextLive ==
  \/ \E c \in Chats, u \in Users : Create(c, u)
  \/ \E c \in Chats, u \in Users : Join(c, u)
  \/ \E c \in Chats, u \in Users : Skip(c, u)
  \/ \E c \in Chats, u \in Users : Pass(c, u)
  \/ \E c \in Chats, u \in Users : Pull(c, u)
  \/ \E c \in Chats, u \in Users : Stop(c, u)
  \/ \E c \in Chats, u \in Users : Status(c, u)

SpecLive ==
  Init /\ [][NextLive]_vars /\ \A c \in Chats : WF_vars(ActingPull(c))

\* ========================================================================
\* Properties
\* ========================================================================
\* the player the rules put on turn: Players[CurrentPos mod len(Players)]
Expected(g) == g.Players[(g.CurrentPos % Len(g.Players)) + 1]
OnTurn(c, u) == getPlayerID(u) = Expected(games[c])

\* C1: a pull by the player on turn removes the game and reports the shot
\* as fatal exactly when PullCount = Bullet before the pull; with PullCount
\* different from Bullet the game stays and the pull is reported a survival.
C1_FatalIffBullet ==
  \A c \in DOMAIN games, u \in Users :
    OnTurn(c, u) =>
      LET g == games[c]
          r == OnPull(games, c, u)
      IN /\ (c \notin DOMAIN r.games) <=> (g.PullCount = g.Bullet)
         /\ (r.sent.kind = "Bang") <=> (g.PullCount = g.Bullet)
         /\ (g.PullCount # g.Bullet) =>
              /\ r.sent.kind = "Click"
              /\ r.games[c].PullCount = g.PullCount + 1

\* the fatal pull, after pulls, passes and skips have gone before
C1_Witness ==
  \E c \in DOMAIN games, u \in Users :
    /\ OnTurn(c, u)
    /\ games[c].PullCount = games[c].Bullet
    /\ games[c].PullCount >= 2
    /\ games[c].CurrentPos > games[c].PullCount
    /\ OnPull(games, c, u).sent.kind = "Bang"
    /\ c \notin DOMAIN OnPull(games, c, u).games

\* C2: pull, pass and skip from anyone but Players[CurrentPos mod len] are
\* answered with not-your-turn naming that player and change nothing in
\* the session map.
C2_OnlyExpectedPlayerActs ==
  \A c \in DOMAIN games, u \in Users :
    ~OnTurn(c, u) =>
      \A r \in {OnPull(games, c, u), OnPass(games, c, u), OnSkip(games, c, u)} :
        /\ r.sent.kind = "NotYourTurn"
        /\ r.sent.player = Expected(games[c])
        /\ r.games = games

C2_Witness ==
  \E c \in DOMAIN games, u \in Users :
    /\ ~OnTurn(c, u)
    /\ InRoster(games[c], getPlayerID(u))
    /\ games[c].CurrentPos > games[c].PullCount
    /\ games[c].PullCount > 0
    /\ OnPull(games, c, u).sent = Named("NotYourTurn", Expected(games[c]))

\* C3: /create on a chat that holds a game is answered already-active and
\* the stored game is left exactly as it was.
C3_CreateNeverReplaces ==
  \A c \in DOMAIN games, u \in Users, bullet \in 0..(Chambers - 1) :
    /\ OnCreate(games, c, u, bullet).sent.kind = "AlreadyActive"
    /\ OnCreate(games, c, u, bullet).games = games

C3_Witness ==
  \E c \in DOMAIN games, u \in Users :
    /\ games[c].PullCount > 0
    /\ Len(games[c].Players) > 1
    /\ OnCreate(games, c, u, 0).sent.kind = "AlreadyActive"

\* the outcomes of the three turn commands for one message
TurnOutcomes(c, u) == {OnPull(games, c, u), OnPass(games, c, u), OnSkip(games, c, u)}
Accepted == {"Click", "Bang", "BangLastChamber", "Passed", "Skipped"}
RosterSet(g) == { g.Players[i] : i \in 1..Len(g.Players) }

\* C4: pull, pass and skip on a game that no /start has announced yet are
\* rejected and change nothing.
C4_TurnCommandsNeedBegin ==
  \A c \in DOMAIN games, u \in Users :
    c \notin begun =>
      \A r \in TurnOutcomes(c, u) :
        /\ r.games = games
        /\ r.sent.kind \notin Accepted

\* C5: once /start has announced the stored game, every join is rejected
\* and the roster stays as it is.
C5_JoinOnlyBeforeBegin ==
  \A c \in begun, u \in Users :
    /\ OnJoin(games, c, u).sent.kind # "Joined"
    /\ OnJoin(games, c, u).games = games

\* C6: an accepted join leaves the player on turn, CurrentPos, PullCount,
\* Bullet and HasPulledOnTurn as they were.
C6_JoinKeepsTurn ==
  \A c \in DOMAIN games, u \in Users :
    LET g == games[c]
        r == OnJoin(games, c, u)
    IN r.sent.kind = "Joined" =>
         /\ Expected(r.games[c]) = Expected(g)
         /\ r.games[c].CurrentPos = g.CurrentPos
         /\ r.games[c].PullCount = g.PullCount
         /\ r.games[c].Bullet = g.Bullet
         /\ r.games[c].HasPulledOnTurn = g.HasPulledOnTurn

\* C7: for the player on turn, skip is refused as already-pulled exactly
\* when HasPulledOnTurn holds and pass is refused as must-pull-first exactly
\* when it does not; the two refusals never coincide, one of them always
\* applies, and skip and pass are never both accepted.
C7_SkipPassGuardsExclusive ==
  \A c \in DOMAIN games, u \in Users :
    OnTurn(c, u) =>
      LET g == games[c]
          skip == OnSkip(games, c, u).sent.kind
          pass == OnPass(games, c, u).sent.kind
      IN /\ (skip = "AlreadyPulled") <=> g.HasPulledOnTurn
         /\ (pass = "MustPullFirst") <=> ~g.HasPulledOnTurn
         /\ ~(skip = "AlreadyPulled" /\ pass = "MustPullFirst")
         /\ (skip = "AlreadyPulled" \/ pass = "MustPullFirst")
         /\ ~(skip = "Skipped" /\ pass = "Passed")
         /\ pass \in {"MustPullFirst", "Passed"}
         /\ skip \in {"AlreadyPulled", "NoSkipsLeft", "Skipped"}

C7_Witness ==
  \E c \in DOMAIN games, u \in Users :
    /\ OnTurn(c, u)
    /\ games[c].HasPulledOnTurn
    /\ SkipsOf(games[c], getPlayerID(u)) > 0
    /\ games[c].CurrentPos > 0
    /\ OnSkip(games, c, u).sent.kind = "AlreadyPulled"
    /\ OnPass(games, c, u).sent.kind = "Passed"

\* C8: every player of a stored game has a skip count in 0..2, which is 2
\* on create and on join, goes down by exactly 1 with each accepted skip of
\* that player and is changed by nothing else; with no skips left a skip by
\* the player on turn who has not pulled is refused as no-skips-left and
\* changes nothing.
C8_SkipBudget ==
  \A c \in DOMAIN games :
    LET g == games[c]
    IN /\ DOMAIN g.Skips = RosterSet(g)
       /\ \A p \in DOMAIN g.Skips : g.Skips[p] \in 0..2
       /\ \A u \in Users :
            LET id == getPlayerID(u)
                s == OnSkip(games, c, u)
                j == OnJoin(games, c, u)
            IN /\ s.sent.kind = "Skipped" =>
                    /\ OnTurn(c, u)
                    /\ s.games[c].Skips =
                         [p \in DOMAIN g.Skips |->
                            IF p = id THEN g.Skips[p] - 1 ELSE g.Skips[p]]
               /\ s.sent.kind # "Skipped" => s.games = games
               /\ (OnTurn(c, u) /\ ~g.HasPulledOnTurn /\ g.Skips[id] = 0) =>
                    s = Result(games, Text("NoSkipsLeft"))
               /\ j.sent.kind = "Joined" =>
                    /\ id \notin DOMAIN g.Skips
                    /\ j.games[c].Skips =
                         [p \in DOMAIN g.Skips \cup {id} |->
                            IF p = id THEN 2 ELSE g.Skips[p]]
               /\ j.sent.kind # "Joined" => j.games = games
               /\ \A r \in {OnPull(games, c, u), OnPass(games, c, u),
                            OnStop(games, c, u), OnStatus(games, c, u),
                            OnCreate(games, c, u, 0)} :
                    c \in DOMAIN r.games => r.games[c].Skips = g.Skips

C8_Witness ==
  \E c \in DOMAIN games, u \in Users :
    /\ OnTurn(c, u)
    /\ ~games[c].HasPulledOnTurn
    /\ Len(games[c].Players) > 1
    /\ games[c].Skips[getPlayerID(u)] = 0
    /\ OnSkip(games, c, u) = Result(games, Text("NoSkipsLeft"))

\* a sequence without a repeated element
NoDuplicates(seq) == \A i, j \in 1..Len(seq) : seq[i] = seq[j] => i = j

\* C9: the roster of a stored game never repeats an identifier, starts as
\* the creator alone and only ever grows by appending the identifier of an
\* accepted join; a join by an identifier already in the roster is refused
\* as duplicate and changes neither roster nor skips.
C9_RosterInv ==
  \A c \in DOMAIN games :
    /\ NoDuplicates(games[c].Players)
    /\ \A u \in Users :
         InRoster(games[c], getPlayerID(u)) =>
           OnJoin(games, c, u) = Result(games, Text("AlreadyInGame"))

C9_RosterStep ==
  \A c \in DOMAIN games' :
    IF c \in DOMAIN games
    THEN \/ games'[c].Players = games[c].Players
         \/ \E u \in Users :
              /\ OnJoin(games, c, u).sent.kind = "Joined"
              /\ games'[c].Players = Append(games[c].Players, getPlayerID(u))
    ELSE \E u \in Users : games'[c].Players = <<getPlayerID(u)>>

C9_RosterOrderedNoDuplicates == []C9_RosterInv /\ [][C9_RosterStep]_vars

C9_Witness ==
  \E c \in DOMAIN games, u \in Users :
    /\ Len(games[c].Players) = 3
    /\ games[c].Players[1] # getPlayerID(u)
    /\ InRoster(games[c], getPlayerID(u))
    /\ OnJoin(games, c, u).sent.kind = "AlreadyInGame"

\* C10: PullCount stays within 0..6 and Bullet within 0..5; while a game is
\* stored its PullCount never goes down and its Bullet never changes.
C10_CountersInv ==
  \A c \in DOMAIN games :
    /\ games[c].PullCount \in 0..6
    /\ games[c].Bullet \in 0..5

C10_CountersStep ==
  \A c \in (DOMAIN games) \cap (DOMAIN games') :
    /\ games'[c].PullCount >= games[c].PullCount
    /\ games'[c].Bullet = games[c].Bullet

C10_PullCountMonotoneBulletFixed == []C10_CountersInv /\ [][C10_CountersStep]_vars

C10_Witness ==
  \E c \in DOMAIN games :
    /\ games[c].PullCount = 5
    /\ games[c].Bullet = 5
    /\ games[c].CurrentPos > 5

HasGame(c) == c \in DOMAIN games
\* the outcomes of every handler that holds the mutex throughout
AllOutcomes(c, u) ==
  TurnOutcomes(c, u)
    \cup {OnJoin(games, c, u), OnStop(games, c, u), OnStatus(games, c, u)}
    \cup {OnCreate(games, c, u, bullet) : bullet \in 0..5}
Refusals ==
  {"AlreadyActive", "NoActiveGame", "NoGameToStop", "NoActiveGameStatus",
   "AlreadyInGame", "NeedPlayers", "NotYourTurn", "MustPullFirst",
   "AlreadyPulled", "NoSkipsLeft"}
\* the step in which a /start callback finishes
StartCheckStep == starting # NoStart /\ starting' = NoStart

\* C11: each rejected command (create on a stored game; join, pull, pass,
\* skip, status, stop without one; duplicate join; start with fewer than 2
\* players; not your turn; pass before a pull; skip after a pull; skip
\* without skips) is answered with its refusal and leaves the session map
\* as it was.
C11_RefusalInv ==
  \A c \in Chats, u \in Users :
    LET id == getPlayerID(u)
        join == OnJoin(games, c, u)
        pull == OnPull(games, c, u)
        pass == OnPass(games, c, u)
        skip == OnSkip(games, c, u)
    IN /\ \A r \in AllOutcomes(c, u) : r.sent.kind \in Refusals => r.games = games
       /\ ~HasGame(c) =>
            /\ {join.sent.kind, pull.sent.kind, pass.sent.kind, skip.sent.kind}
                 = {"NoActiveGame"}
            /\ OnStatus(games, c, u).sent.kind = "NoActiveGameStatus"
            /\ OnStop(games, c, u).sent.kind = "NoGameToStop"
       /\ HasGame(c) =>
            /\ \A bullet \in 0..5 :
                 OnCreate(games, c, u, bullet).sent.kind = "AlreadyActive"
            /\ InRoster(games[c], id) => join.sent.kind = "AlreadyInGame"
            /\ ~OnTurn(c, u) =>
                 {pull.sent.kind, pass.sent.kind, skip.sent.kind} = {"NotYourTurn"}
            /\ (OnTurn(c, u) /\ ~games[c].HasPulledOnTurn) =>
                 pass.sent.kind = "MustPullFirst"
            /\ (OnTurn(c, u) /\ games[c].HasPulledOnTurn) =>
                 skip.sent.kind = "AlreadyPulled"
            /\ (OnTurn(c, u) /\ ~games[c].HasPulledOnTurn /\ games[c].Skips[id] = 0) =>
                 skip.sent.kind = "NoSkipsLeft"

C11_RefusalStep ==
  (StartCheckStep /\ OnStartCheck(starting, games).kind \in Refusals) => games' = games

C11_RefusalsChangeNothing == []C11_RefusalInv /\ [][C11_RefusalStep]_vars

C11_Witness ==
  \E c \in DOMAIN games, u \in Users :
    /\ OnTurn(c, u)
    /\ games[c].HasPulledOnTurn
    /\ games[c].Skips[getPlayerID(u)] = 1
    /\ OnSkip(games, c, u) = Result(games, Text("AlreadyPulled"))

\* the game /create installs for a creator
IsFresh(g, creator) ==
  /\ g.Players = <<creator>>
  /\ g.Bullet \in 0..5
  /\ g.PullCount = 0
  /\ g.CurrentPos = 0
  /\ g.HasPulledOnTurn = FALSE
  /\ g.Skips = [p \in {creator} |-> 2]

\* C12: a fatal pull and a stop leave the chat without a game; while it has
\* none, join, start, pull, pass, skip, status and stop are answered with
\* no-active-game and change nothing, and create installs a fresh game.
C12_EndedInv ==
  \A c \in Chats, u \in Users :
    /\ HasGame(c) =>
         \A r \in {OnPull(games, c, u), OnStop(games, c, u)} :
           r.sent.kind \in {"Bang", "BangLastChamber", "Stopped"} =>
             c \notin DOMAIN r.games
    /\ ~HasGame(c) =>
         /\ \A r \in {OnJoin(games, c, u), OnPull(games, c, u),
                      OnPass(games, c, u), OnSkip(games, c, u)} :
              r = Result(games, Text("NoActiveGame"))
         /\ OnStatus(games, c, u) = Result(games, Text("NoActiveGameStatus"))
         /\ OnStop(games, c, u) = Result(games, Text("NoGameToStop"))
         /\ OnStartCheck(StartLookupOf(games, c), games) = Text("NoActiveGame")
         /\ \A bullet \in 0..5 :
              LET r == OnCreate(games, c, u, bullet)
              IN /\ r.sent.kind = "Created"
                 /\ c \in DOMAIN r.games
                 /\ IsFresh(r.games[c], getPlayerID(u))
    /\ (starting # NoStart /\ ~starting.exists) =>
         OnStartCheck(starting, games) = Text("NoActiveGame")

C12_EndedStep ==
  \A c \in Chats :
    /\ (c \in DOMAIN games /\ c \notin DOMAIN games') =>
         \E u \in Users :
           \/ OnPull(games, c, u).sent.kind = "Bang"
           \/ OnStop(games, c, u).sent.kind = "Stopped"
    /\ (c \notin DOMAIN games /\ c \in DOMAIN games') =>
         \E u \in Users : IsFresh(games'[c], getPlayerID(u))

C12_NoGameAfterEnd == []C12_EndedInv /\ [][C12_EndedStep]_vars

\* a chat whose game has been removed while a /start callback held it
C12_Witness ==
  \E c \in Chats, u \in Users :
    /\ ~HasGame(c)
    /\ starting.chat = c
    /\ starting.ptr = "detached"
    /\ Len(starting.obj.Players) > 1
    /\ OnPull(games, c, u) = Result(games, Text("NoActiveGame"))

\* C13: stop on a stored game succeeds for every sender and on every turn
\* and removes the game; a stop after it, or on a chat without a game, is
\* answered with no-active-game and leaves the session map as it is.
C13_StopAlwaysAndIdempotent ==
  \A c \in Chats, u \in Users :
    LET r == OnStop(games, c, u)
    IN /\ HasGame(c) =>
            /\ r.sent.kind = "Stopped"
            /\ DOMAIN r.games = (DOMAIN games) \ {c}
            /\ \A d \in DOMAIN r.games : r.games[d] = games[d]
       /\ ~HasGame(c) => r = Result(games, Text("NoGameToStop"))
       /\ \A v \in Users :
            OnStop(r.games, c, v) = Result(r.games, Text("NoGameToStop"))

C13_Witness ==
  \E c \in DOMAIN games, u \in Users :
    /\ ~InRoster(games[c], getPlayerID(u))
    /\ games[c].HasPulledOnTurn
    /\ Len(games[c].Players) > 1
    /\ OnStop(games, c, u).sent.kind = "Stopped"
    /\ c \notin DOMAIN OnStop(games, c, u).games

\* C14: /start on a game with fewer than 2 players answers that at least 2
\* are needed, and leaves the game as it is and not started.
C14_NeedPlayersInv ==
  /\ \A c \in DOMAIN games :
       Len(games[c].Players) < 2 =>
         /\ OnStartCheck(StartLookupOf(games, c), games) = Text("NeedPlayers")
         /\ c \notin begun
  /\ (starting # NoStart /\ starting.exists
        /\ Len(StartObject(starting, games).Players) < 2) =>
       OnStartCheck(starting, games) = Text("NeedPlayers")

C14_NeedPlayersStep ==
  (StartCheckStep /\ OnStartCheck(starting, games).kind = "NeedPlayers") =>
    /\ games' = games
    /\ begun' = begun

C14_StartNeedsTwoPlayers == []C14_NeedPlayersInv /\ [][C14_NeedPlayersStep]_vars

C14_Witness ==
  /\ starting # NoStart
  /\ starting.ptr = "map"
  /\ Len(games[starting.chat].Players) = 1
  /\ games[starting.chat].PullCount > 0
  /\ OnStartCheck(starting, games) = Text("NeedPlayers")

\* C15: /create on a chat without a game answers Created and installs
\* roster [creator], Bullet in 0..5, PullCount 0, CurrentPos 0,
\* HasPulledOnTurn false and Skips {creator: 2} under the chat's key, and
\* leaves every other chat's entry as it was.
C15_CreateInv ==
  \A c \in TwoChats, u \in Users, bullet \in 0..5 :
    ~HasGame(c) =>
      LET r == OnCreate(games, c, u, bullet)
          creator == getPlayerID(u)
      IN /\ r.sent.kind = "Created"
         /\ DOMAIN r.games = DOMAIN games \cup {c}
         /\ r.games[c] = [Players |-> <<creator>>, Bullet |-> bullet,
                          CurrentPos |-> 0, PullCount |-> 0, IsActive |-> TRUE,
                          HasPulledOnTurn |-> FALSE,
                          Skips |-> [p \in {creator} |-> 2]]
         /\ \A d \in DOMAIN games : r.games[d] = games[d]

C15_CreateStep ==
  \A c \in TwoChats :
    (c \notin DOMAIN games /\ c \in DOMAIN games') =>
      /\ \E u \in Users : IsFresh(games'[c], getPlayerID(u))
      /\ \A d \in TwoChats \ {c} :
           /\ d \in DOMAIN games' <=> d \in DOMAIN games
           /\ d \in DOMAIN games => games'[d] = games[d]

C15_CreateInstallsFreshGameOnly == []C15_CreateInv /\ [][C15_CreateStep]_vars

\* a game just created in one chat beside a game under way in the other
C15_Witness ==
  \E c \in TwoChats, d \in TwoChats :
    /\ c # d
    /\ HasGame(c) /\ HasGame(d)
    /\ \E u \in Users : IsFresh(games[c], getPlayerID(u))
    /\ games[d].PullCount > 0
    /\ games[d].CurrentPos > 0
    /\ Len(games[d].Players) > 1
    /\ games[d].Players[1] = games[c].Players[1]

\* C16: HasPulledOnTurn is set only while the player on turn is the one
\* whose surviving pull set it, so an accepted pass is by a player who has
\* pulled since the turn came to them: no step that leaves the flag set
\* changes the player on turn.
C16_FlagStep ==
  \A c \in (DOMAIN games) \cap (DOMAIN games') :
    games'[c].HasPulledOnTurn => Expected(games'[c]) = Expected(games[c])

C16_PassOnlyAfterOwnPull == [][C16_FlagStep]_vars

\* Players[(CurrentPos mod len) + 1 mod len]: the roster's next player
Successor(g) == g.Players[((g.CurrentPos + 1) % Len(g.Players)) + 1]

\* C17: an accepted pass or skip adds 1 to CurrentPos, clears
\* HasPulledOnTurn, keeps PullCount, Bullet and the roster and hands the
\* turn to the next player in join order; a surviving pull keeps
\* CurrentPos, adds 1 to PullCount and sets HasPulledOnTurn; nothing else
\* changes CurrentPos.
C17_TurnInv ==
  \A c \in DOMAIN games, u \in Users :
    LET g == games[c]
    IN /\ \A r \in {OnPass(games, c, u), OnSkip(games, c, u)} :
            r.sent.kind \in {"Passed", "Skipped"} =>
              LET h == r.games[c]
              IN /\ h.CurrentPos = g.CurrentPos + 1
                 /\ h.HasPulledOnTurn = FALSE
                 /\ h.PullCount = g.PullCount
                 /\ h.Bullet = g.Bullet
                 /\ h.Players = g.Players
                 /\ Expected(h) = Successor(g)
       /\ LET r == OnPull(games, c, u)
          IN r.sent.kind = "Click" =>
               LET h == r.games[c]
               IN /\ h.CurrentPos = g.CurrentPos
                  /\ h.PullCount = g.PullCount + 1
                  /\ h.HasPulledOnTurn = TRUE
                  /\ h.Bullet = g.Bullet
                  /\ h.Players = g.Players
       /\ \A r \in AllOutcomes(c, u) :
            (c \in DOMAIN r.games /\ r.sent.kind \notin {"Passed", "Skipped"}) =>
              r.games[c].CurrentPos = g.CurrentPos

C17_TurnStep ==
  \A c \in (DOMAIN games) \cap (DOMAIN games') :
    games'[c].CurrentPos # games[c].CurrentPos =>
      /\ games'[c].CurrentPos = games[c].CurrentPos + 1
      /\ games'[c].HasPulledOnTurn = FALSE
      /\ games'[c].PullCount = games[c].PullCount
      /\ games'[c].Bullet = games[c].Bullet
      /\ games'[c].Players = games[c].Players
      /\ \E u \in Users :
           \/ OnPass(games, c, u) = Result(games', OnPass(games, c, u).sent)
           \/ OnSkip(games, c, u) = Result(games', OnSkip(games, c, u).sent)

C17_TurnMovesByPassOrSkipOnly == []C17_TurnInv /\ [][C17_TurnStep]_vars

\* a pass that wraps the turn round a roster of three
C17_Witness ==
  \E c \in DOMAIN games, u \in Users :
    /\ Len(games[c].Players) = 3
    /\ games[c].CurrentPos % 3 = 2
    /\ games[c].PullCount > 1
    /\ OnPass(games, c, u).sent.kind = "Passed"
    /\ Expected(OnPass(games, c, u).games[c]) = games[c].Players[1]

\* C18: PullCount <= Bullet <= 5 in every stored game, so the branch for
\* remainingChambers <= 0 with PullCount different from Bullet is never
\* taken, and every survival reports 6 - PullCount (after the pull)
\* chambers, a number in 1..5.
C18_LastChamberBranchDead ==
  \A c \in DOMAIN games, u \in Users :
    LET g == games[c]
        r == OnPull(games, c, u)
    IN /\ g.PullCount <= g.Bullet
       /\ g.Bullet <= 5
       /\ ~(6 - g.PullCount - 1 <= 0 /\ g.PullCount # g.Bullet)
       /\ r.sent.kind # "BangLastChamber"
       /\ r.sent.kind = "Click" =>
            /\ r.sent.chambers = 6 - r.games[c].PullCount
            /\ r.sent.chambers \in 1..5

\* the last survival a cylinder allows
C18_Witness ==
  \E c \in DOMAIN games, u \in Users :
    /\ games[c].Bullet = 5
    /\ games[c].PullCount = 4
    /\ OnPull(games, c, u).sent.kind = "Click"
    /\ OnPull(games, c, u).sent.chambers = 1

\* C19: /start acts on the game the chat has when it answers: it never
\* announces a start for a game that a stop or a fatal pull has removed
\* since its lookup.
C19_StartIsAtomic ==
  (starting # NoStart /\ OnStartCheck(starting, games).kind = "Starting") =>
    (starting.ptr = "map" /\ starting.chat \in DOMAIN games)

\* the answers that report that the chat has no game
NoGameAnswers == {"NoActiveGame", "NoGameToStop", "NoActiveGameStatus"}

\* C20: in the first version, once a fatal pull or a stop has ended a
\* chat's game, /startroulette installs a fresh game and join, startgame,
\* pull, stopgame and status are answered with no-active-game; no handler
\* run ends in a panic.
C20_HandledAfterEnd ==
  \A c \in Chats, u \in Users :
    (c \notin Held(games)) =>
      /\ \A bullet \in 0..5 :
           LET r == OnStartrouletteMain(games, c, u, bullet)
           IN /\ r.sent.kind = "Created"
              /\ r.games[c] = NewGameMain(getPlayerID(u), bullet)
      /\ \A r \in {OnJoinMain(games, c, u), OnPullMain(games, c, u),
                   OnStopgameMain(games, c, u), OnStatusMain(games, c, u)} :
           /\ r.sent.kind \in NoGameAnswers
           /\ r.games = games
      /\ OnStartgameCheckMain(StartgameLookupOf(games, c), games).kind
           \in NoGameAnswers

\* the entry of chat t is the same in maps m and m2
SameEntry(m, m2, t) ==
  /\ t \in DOMAIN m2 <=> t \in DOMAIN m
  /\ t \in DOMAIN m => m2[t] = m[t]

\* C21: a command addressed to one chat, accepted or refused, leaves the
\* entry of every other chat as it was: the key is neither added nor
\* removed and the game under it (roster, Bullet, PullCount, CurrentPos,
\* Skips, HasPulledOnTurn) is the same; every step changes the entry of at
\* most one chat.
C21_IsolationInv ==
  \A c \in TwoChats, u \in Users :
    \A r \in AllOutcomes(c, u) :
      \A t \in TwoChats \ {c} : SameEntry(games, r.games, t)

C21_IsolationStep ==
  \E c \in TwoChats : \A t \in TwoChats \ {c} : SameEntry(games, games', t)

C21_SessionsIsolated == []C21_IsolationInv /\ [][C21_IsolationStep]_vars

\* a fatal pull in one chat beside a game under way in the other
C21_Witness ==
  \E c \in TwoChats, t \in TwoChats, u \in Users :
    /\ c # t
    /\ HasGame(c) /\ HasGame(t)
    /\ games[t].HasPulledOnTurn
    /\ Len(games[t].Players) > 1
    /\ games[t].Skips[games[t].Players[1]] < 2
    /\ OnPull(games, c, u).sent.kind = "Bang"
    /\ c \notin DOMAIN OnPull(games, c, u).games
    /\ OnPull(games, c, u).games[t] = games[t]

\* the step in which a /pull of chat c is answered as fatal
FatalPullStep(c) ==
  \E u \in Users :
    /\ c \in DOMAIN games
    /\ OnPull(games, c, u).sent.kind = "Bang"
    /\ games' = OnPull(games, c, u).games

\* a step that removes the game of chat c is a fatal pull
C22_RemovedByFatalPull ==
  \A c \in DOMAIN games : c \notin DOMAIN games' => FatalPullStep(c)

\* C22 as stated: when the player on turn keeps pulling, every stored game
\* ends, and it ends with a fatal pull.
C22_EndsWithFatalPull ==
  /\ [][C22_RemovedByFatalPull]_vars
  /\ \A c \in Chats : HasGame(c) ~> ~HasGame(c)

\* C22: in every stored game a pull by the player on turn is accepted; the
\* pulls a game has accepted never exceed Bullet, so a game accepts Bullet
\* survivals and then the fatal pull, at most 6 pulls; and when the player
\* on turn keeps pulling, every stored game is removed, by that fatal pull
\* unless a /stop removes it first.
C22_ProgressInv ==
  \A c \in DOMAIN games :
    /\ games[c].PullCount <= games[c].Bullet
    /\ games[c].PullCount + 1 <= 6
    /\ \E u \in Users :
         /\ OnTurn(c, u)
         /\ OnPull(games, c, u).sent.kind \in {"Click", "Bang"}
         /\ OnPull(games, c, u).sent.kind = "Bang"
              <=> games[c].PullCount = games[c].Bullet

C22_ProgressStep ==
  \A c \in DOMAIN games :
    /\ (c \in DOMAIN games' /\ games'[c].PullCount # games[c].PullCount) =>
         /\ games'[c].PullCount = games[c].PullCount + 1
         /\ \E u \in Users : OnPull(games, c, u).sent.kind = "Click"
    /\ c \notin DOMAIN games' =>
         \/ FatalPullStep(c)
         \/ \E u \in Users : games' = OnStop(games, c, u).games

C22_GameEnds ==
  /\ []C22_ProgressInv
  /\ [][C22_ProgressStep]_vars
  /\ \A c \in Chats : HasGame(c) ~> ~HasGame(c)

\* the sixth pull of a game: five survivals, and the bullet in the last chamber
C22_Witness ==
  \E c \in DOMAIN games, u \in Users :
    /\ games[c].Bullet = 5
    /\ games[c].PullCount = 5
    /\ Len(games[c].Players) > 1
    /\ OnTurn(c, u)
    /\ OnPull(games, c, u).sent.kind = "Bang"

\* C23: in the first version, a /pull sent by the user whose identifier
\* (username, else first name, else "player" and the numeric id) is the
\* roster entry on turn is accepted: it is answered as a survival or as the
\* fatal shot, never as not-your-turn.
C23_PlayerOnTurnAccepted ==
  \A c \in Held(games), u \in Users :
    getPlayerID(u) = currentPlayer(games[c]) =>
      OnPullMain(games, c, u).sent.kind \in {"Click", "Bang"}

====
